---- MODULE Spec2Model ----
(***************************************************************************)
(* Model of the multi-series line chart of src/src/App.tsx (and of its     *)
(* near-duplicate src/src/components/LineChart.tsx): the catalog of        *)
(* airlines, the synthetic monthly data generator, the visibility / hover  *)
(* state of the LineChart component and the values its render derives from *)
(* that state (opacity, width, z-order, active dot, tooltip).              *)
(*                                                                         *)
(* Numbers.  The generator works on IEEE doubles.  Here a double v is the  *)
(* integer v * Scale (fixed point), every product is rounded to the        *)
(* nearest fixed-point number, and a Math.random() result r is the integer *)
(* r * DrawDen.  The time coordinate year + (month - 1) / 12 is held in    *)
(* twelfths of a year: 12 * year + (month - 1).                            *)
(***************************************************************************)
EXTENDS Integers, Sequences, FiniteSets, TLC

\* ------------------------------------------------------------------------
\* Bounds of the model
\* ------------------------------------------------------------------------

\* Series of each group that the chart under check is built with (the code
\* lists 6 per group; the chart here takes the first NumPerGroup of each).
NumPerGroup == 2

\* Fixed-point resolution of a value: 1 / Scale.
Scale == 100

\* A random draw is a multiple of 1 / DrawDen, DrawDen = 2 * DrawHalf.
DrawHalf == 500

\* The injected random source repeats a block of MaxPeriod draws.
MaxPeriod == 3

\* Date.now() at mount, and how far the clock runs after it (ms).
Epoch == 1000
MaxElapsed == 16

DrawDen == 2 * DrawHalf

\* ------------------------------------------------------------------------
\* Program constants
\* ------------------------------------------------------------------------

StartYear == 2010
NumYears == 15
NumMonths == 12

\* lastValue * 0.08
MaxVariationPct == 8

\* Math.random() * 2000 + 2000 and Math.random() * 1500 + 1000
OperatingInitSpan == 2000
OperatingInitBase == 2000
DiscontinuedInitSpan == 1500
DiscontinuedInitBase == 1000

\* Math.max(800, Math.min(5500, v)) and Math.max(100, Math.min(3500, v))
OperatingMin == 800
OperatingMax == 5500
DiscontinuedMin == 100
DiscontinuedMax == 3500

\* newValue *= 0.85, 1.02, 0.997, 0.995, as numerators over 1000
ShockPerMille == 850
RecoveryPerMille == 1020
DeclinePerMille == 997
AcceleratedDeclinePerMille == 995

ShockYear == 2020
ShockFirstMonth == 3
ShockLastMonth == 6
RecoveryYear == 2021
RecoveryHalfYear == 2022
RecoveryLastMonth == 6
DeclineAfterYear == 2015
AcceleratedDeclineAfterYear == 2018

throttleMs == 16

\* Opacities in hundredths, widths in pixels
FullOpacity == 100
HiddenOpacity == 0
FadedOpacity == 8
FadedOpacityLC == 15
HoveredWidth == 3
BaseWidth == 2

\* useState<... | null>(null)
null == "null"
NullIndex == 0 - 1
\* state.activeTooltipIndex === undefined
undefined == 0 - 2

\* ------------------------------------------------------------------------
\* Catalog
\* ------------------------------------------------------------------------

operatingColors ==
  << "#1f77b4", "#2ca02c", "#ff7f0e", "#d62728", "#9467bd",
     "#8c564b", "#e377c2", "#7f7f7f", "#bcbd22", "#17becf" >>

discontinuedColors ==
  << "#aec7e8", "#98df8a", "#ffbb78", "#ff9896", "#c5b0d5",
     "#c49c94", "#f7b6d3", "#c7c7c7", "#dbdb8d", "#9edae5" >>

operatingCodes == << "LX", "BA", "AF", "LH", "KL", "IB" >>
discontinuedCodes == << "CX", "LZ", "C3", "UL", "AA", "DL" >>

\* the map that gives every airline of a group the first color of the palette
MapAirlinesFirstColor(codes, palette, group) ==
  [ index \in 1..Len(codes) |->
      [ code |-> codes[index], color |-> palette[1], group |-> group ] ]

\* codes.map((code, index) => ({code, name, color: palette[index], group}))
MapAirlines(codes, palette, group) ==
  [ index \in 1..Len(codes) |->
      [ code |-> codes[index], color |-> palette[index], group |-> group ] ]

\* [...operatingAirlines, ...discontinuedAirlines]
generateAirlines ==
  MapAirlines(operatingCodes, operatingColors, "operating")
    \o MapAirlines(discontinuedCodes, discontinuedColors, "discontinued")

\* The chart under check: the first NumPerGroup airlines of each group.
airlines ==
  MapAirlines(SubSeq(operatingCodes, 1, NumPerGroup), operatingColors, "operating")
    \o MapAirlines(SubSeq(discontinuedCodes, 1, NumPerGroup),
                   discontinuedColors, "discontinued")

Groups == { "operating", "discontinued" }
Codes == { airlines[i].code : i \in 1..Len(airlines) }
AirlineSet == { airlines[i] : i \in 1..Len(airlines) }
AirlinesOf(group) == { a \in AirlineSet : a.group = group }

\* ------------------------------------------------------------------------
\* Arithmetic of the generator
\* ------------------------------------------------------------------------

\* a / b rounded to the nearest integer (b > 0), halves away from zero
RoundDiv(a, b) ==
  IF a >= 0 THEN (2 * a + b) \div (2 * b)
            ELSE 0 - ((2 * (0 - a) + b) \div (2 * b))

\* v * num / den on fixed-point v
MulRatio(v, num, den) == RoundDiv(v * num, den)

\* Math.round(v): the nearest integer, halves up
MathRound(v) == (2 * v + Scale) \div (2 * Scale)

Max2(a, b) == IF a >= b THEN a ELSE b
Min2(a, b) == IF a <= b THEN a ELSE b

\* Math.max(lo, Math.min(hi, v))
Clamp(lo, hi, v) == Max2(lo * Scale, Min2(hi * Scale, v))

\* the shock window taken with months counted from 0: February to May
ShockFiresMonthFromZero(year, month) ==
  year = ShockYear /\ month >= ShockFirstMonth - 1 /\ month <= ShockLastMonth - 1

\* year === 2020 && month >= 3 && month <= 6
ShockFires(year, month) ==
  year = ShockYear /\ month >= ShockFirstMonth /\ month <= ShockLastMonth

\* year === 2021 || (year === 2022 && month <= 6)
RecoveryFires(year, month) ==
  year = RecoveryYear \/ (year = RecoveryHalfYear /\ month <= RecoveryLastMonth)

\* the decline that starts with 2015 itself
DeclineFiresFrom2015(year) == year >= DeclineAfterYear

\* year > 2015
DeclineFires(year) == year > DeclineAfterYear

\* year > 2018
AcceleratedDeclineFires(year) == year > AcceleratedDeclineAfterYear

\* Math.random() * span + base, r the draw
\* the initial draw with the ranges of the two groups exchanged
InitialValueSwapped(group, r) ==
  IF group = "operating"
    THEN RoundDiv(r * DiscontinuedInitSpan * Scale, DrawDen)
           + DiscontinuedInitBase * Scale
    ELSE RoundDiv(r * OperatingInitSpan * Scale, DrawDen) + OperatingInitBase * Scale

InitialValue(group, r) ==
  IF group = "operating"
    THEN RoundDiv(r * OperatingInitSpan * Scale, DrawDen) + OperatingInitBase * Scale
    ELSE RoundDiv(r * DiscontinuedInitSpan * Scale, DrawDen)
           + DiscontinuedInitBase * Scale

\* the perturbation without the - 0.5: between 0 and +8% instead of -8% and +8%
PerturbedOneSided(lastValue, r) ==
  LET maxVariation == MulRatio(lastValue, MaxVariationPct, 100)
      variation == RoundDiv(2 * r * maxVariation, DrawDen)
  IN lastValue + variation

\* lastValue + (Math.random() - 0.5) * 2 * (lastValue * 0.08)
Perturbed(lastValue, r) ==
  LET maxVariation == MulRatio(lastValue, MaxVariationPct, 100)
      variation == RoundDiv((2 * r - DrawDen) * maxVariation, DrawDen)
  IN lastValue + variation

\* the trend multipliers of one group, before the clamp
Trended(group, v, year, month) ==
  IF group = "operating"
    THEN LET v1 == IF ShockFires(year, month)
                     THEN MulRatio(v, ShockPerMille, 1000) ELSE v
             v2 == IF RecoveryFires(year, month)
                     THEN MulRatio(v1, RecoveryPerMille, 1000) ELSE v1
         IN v2
    ELSE LET v1 == IF DeclineFires(year)
                     THEN MulRatio(v, DeclinePerMille, 1000) ELSE v
             v2 == IF AcceleratedDeclineFires(year)
                     THEN MulRatio(v1, AcceleratedDeclinePerMille, 1000) ELSE v1
         IN v2

\* the clamp of one group
ClampGroup(group, v) ==
  IF group = "operating" THEN Clamp(OperatingMin, OperatingMax, v)
                         ELSE Clamp(DiscontinuedMin, DiscontinuedMax, v)

\* NewValue with the clamp applied before the trend multipliers
NewValueClampFirst(group, lastValue, r, year, month) ==
  Trended(group, ClampGroup(group, Perturbed(lastValue, r)), year, month)

\* newValue of one airline at one (year, month): the body of the inner forEach
NewValue(group, lastValue, r, year, month) ==
  ClampGroup(group, Trended(group, Perturbed(lastValue, r), year, month))

\* year + (month - 1) / 12, in twelfths of a year
YearDecimal(year, month) == 12 * year + (month - 1)

\* ------------------------------------------------------------------------
\* State
\* ------------------------------------------------------------------------

VARIABLES
  rng,               \* the random source: a block of draws, repeated for ever
  drawCount,         \* Math.random() calls made so far
  gpc,               \* position inside generateData
  gi,                \* index of the airline the current forEach is at
  year, month,       \* the (year, month) the nested forEach is at
  lastValues,        \* generateData's lastValues (fixed point)
  dataPoint,         \* generateData's dataPoint under construction
  data,              \* generateData's data; after return, the memoized matrix
  hiddenItems,       \* useState<Set<string>>
  hiddenGroups,      \* useState<Set<group>>
  hoveredItem,       \* useState<string | null>
  activeIndex,       \* useState<number | null>
  singleAirlineMode, \* useState(true) of App
  lastUpdateRef,     \* useRef<number>(0)
  lastAccepted,      \* history: Date.now() at the last pointer-move not dropped
  now                \* Date.now()

genVars == << rng, drawCount, gpc, gi, year, month, lastValues, dataPoint, data >>
uiVars == << hiddenItems, hiddenGroups, hoveredItem, activeIndex,
             singleAirlineMode, lastUpdateRef, lastAccepted, now >>
vars == << rng, drawCount, gpc, gi, year, month, lastValues, dataPoint, data,
           hiddenItems, hiddenGroups, hoveredItem, activeIndex,
           singleAirlineMode, lastUpdateRef, lastAccepted, now >>

\* ------------------------------------------------------------------------
\* The random source
\* ------------------------------------------------------------------------

\* Math.random() returns r with 0 <= r < 1: the least draw, one half and the
\* greatest draw below 1
DrawValues == { 0, DrawHalf, DrawDen - 1 }

Sources == [ 1..MaxPeriod -> DrawValues ]

\* the n-th call of Math.random() (n from 0) on source src
Draw(src, n) == src[(n % Len(src)) + 1]

\* ------------------------------------------------------------------------
\* generateData, one loop iteration at a time
\* ------------------------------------------------------------------------

NumAirlines == Len(airlines)
LastYear == StartYear + NumYears - 1
EmptyMap == [ k \in {} |-> 0 ]

\* lastValues[airline.code] = Math.random() * span + base
InitIter(lv, i, r) ==
  lv @@ (airlines[i].code :> InitialValue(airlines[i].group, r))

\* const dataPoint = { year: year + (month - 1) / 12 }
NewPoint(y, m) == ("year" :> YearDecimal(y, m))

\* the carried value rounded like the sample
StoreLastRounded(lv, code, newValue) ==
  [ lv EXCEPT ![code] = MathRound(newValue) * Scale ]

\* lastValues[airline.code] = newValue
StoreLast(lv, code, newValue) == [ lv EXCEPT ![code] = newValue ]

\* dataPoint[airline.code] = Math.round(newValue)
StorePoint(dp, code, newValue) == dp @@ (code :> MathRound(newValue))

\* the inner loop going through the catalog from its last airline
SeriesIterReverse(lv, dp, i, y, m, r) ==
  LET airline == airlines[NumAirlines + 1 - i]
      newValue == NewValue(airline.group, lv[airline.code], r, y, m)
  IN [ lastValues |-> StoreLast(lv, airline.code, newValue),
       dataPoint |-> StorePoint(dp, airline.code, newValue) ]

\* one iteration of the inner airlines.forEach
SeriesIter(lv, dp, i, y, m, r) ==
  LET airline == airlines[i]
      newValue == NewValue(airline.group, lv[airline.code], r, y, m)
  IN [ lastValues |-> StoreLast(lv, airline.code, newValue),
       dataPoint |-> StorePoint(dp, airline.code, newValue) ]

GenInitValue ==
  /\ gpc = "init"
  /\ gi <= NumAirlines
  /\ lastValues' = InitIter(lastValues, gi, Draw(rng, drawCount))
  /\ drawCount' = drawCount + 1
  /\ gi' = gi + 1
  /\ UNCHANGED << rng, gpc, year, month, dataPoint, data >>
  /\ UNCHANGED uiVars

GenNewPoint ==
  /\ \/ gpc = "init" /\ gi > NumAirlines
     \/ gpc = "next" /\ year <= LastYear
  /\ dataPoint' = NewPoint(year, month)
  /\ gi' = 1
  /\ gpc' = "series"
  /\ UNCHANGED << rng, drawCount, year, month, lastValues, data >>
  /\ UNCHANGED uiVars

GenSeries ==
  /\ gpc = "series"
  /\ gi <= NumAirlines
  /\ LET it == SeriesIter(lastValues, dataPoint, gi, year, month,
                          Draw(rng, drawCount))
     IN /\ lastValues' = it.lastValues
        /\ dataPoint' = it.dataPoint
  /\ drawCount' = drawCount + 1
  /\ gi' = gi + 1
  /\ UNCHANGED << rng, gpc, year, month, data >>
  /\ UNCHANGED uiVars

\* GenPush with a months loop that stops one month early
GenPushSkipsDecember ==
  /\ gpc = "series"
  /\ gi > NumAirlines
  /\ data' = Append(data, dataPoint)
  /\ IF month < NumMonths - 1
       THEN month' = month + 1 /\ year' = year
       ELSE month' = 1 /\ year' = year + 1
  /\ gpc' = "next"
  /\ UNCHANGED << rng, drawCount, gi, lastValues, dataPoint >>
  /\ UNCHANGED uiVars

\* data.push(dataPoint), and the months / years forEach move on
GenPush ==
  /\ gpc = "series"
  /\ gi > NumAirlines
  /\ data' = Append(data, dataPoint)
  /\ IF month < NumMonths
       THEN month' = month + 1 /\ year' = year
       ELSE month' = 1 /\ year' = year + 1
  /\ gpc' = "next"
  /\ UNCHANGED << rng, drawCount, gi, lastValues, dataPoint >>
  /\ UNCHANGED uiVars

\* return data
GenReturn ==
  /\ gpc = "next"
  /\ year > LastYear
  /\ gpc' = "done"
  /\ UNCHANGED << rng, drawCount, gi, year, month, lastValues, dataPoint, data >>
  /\ UNCHANGED uiVars

\* ------------------------------------------------------------------------
\* Specification of the generator
\* ------------------------------------------------------------------------

UiInit ==
  /\ hiddenItems = {}
  /\ hiddenGroups = {}
  /\ hoveredItem = null
  /\ activeIndex = NullIndex
  /\ singleAirlineMode = TRUE
  /\ lastUpdateRef = 0
  /\ lastAccepted = 0
  /\ now = Epoch

\* generateData is entered
GenStart ==
  /\ drawCount = 0
  /\ gpc = "init"
  /\ gi = 1
  /\ year = StartYear
  /\ month = 1
  /\ lastValues = EmptyMap
  /\ dataPoint = EmptyMap
  /\ data = << >>
  /\ UiInit

InitGen == rng \in Sources /\ GenStart

NextGen ==
  \/ GenInitValue
  \/ GenNewPoint
  \/ GenSeries
  \/ GenPush
  \/ GenReturn

SpecGen == InitGen /\ [][NextGen]_vars

\* ------------------------------------------------------------------------
\* LineChart: handlers
\* ------------------------------------------------------------------------

\* the component has rendered: useMemo(() => generateData(airlines)) returned
Mounted == gpc = "done"

\* an updater that adds x and never deletes it
FlipAddOnly(prev, x) == prev \cup { x }

\* the body of the setHiddenItems / setHiddenGroups updater:
\* new Set(prev) with x deleted when present, added when absent
Flip(prev, x) == IF x \in prev THEN prev \ { x } ELSE prev \cup { x }

\* toggleItem that also shows the group of an airline it un-hides
toggleItemShowsGroup(code) ==
  /\ Mounted
  /\ hiddenItems' = Flip(hiddenItems, code)
  /\ hiddenGroups' =
       IF code \in hiddenItems
         THEN hiddenGroups \ { a.group : a \in { b \in AirlineSet : b.code = code } }
         ELSE hiddenGroups
  /\ UNCHANGED << hoveredItem, activeIndex, singleAirlineMode, lastUpdateRef, lastAccepted, now >>
  /\ UNCHANGED genVars

toggleItem(code) ==
  /\ Mounted
  /\ hiddenItems' = Flip(hiddenItems, code)
  /\ UNCHANGED << hiddenGroups, hoveredItem, activeIndex, singleAirlineMode,
                  lastUpdateRef, lastAccepted, now >>
  /\ UNCHANGED genVars

\* toggleGroup that also drops the individual hides of the group's airlines
toggleGroupResetsItems(group) ==
  /\ Mounted
  /\ hiddenGroups' = Flip(hiddenGroups, group)
  /\ hiddenItems' = hiddenItems \ { a.code : a \in { b \in AirlineSet : b.group = group } }
  /\ UNCHANGED << hoveredItem, activeIndex, singleAirlineMode, lastUpdateRef, lastAccepted, now >>
  /\ UNCHANGED genVars

toggleGroup(group) ==
  /\ Mounted
  /\ hiddenGroups' = Flip(hiddenGroups, group)
  /\ UNCHANGED << hiddenItems, hoveredItem, activeIndex, singleAirlineMode,
                  lastUpdateRef, lastAccepted, now >>
  /\ UNCHANGED genVars

\* isItemVisible that consults the individual hides only
isItemVisibleItemsOnly(airline) ==
  IF airline.code \in hiddenItems THEN FALSE ELSE TRUE

isItemVisible(airline) ==
  IF airline.group \in hiddenGroups THEN FALSE
  ELSE IF airline.code \in hiddenItems THEN FALSE
  ELSE TRUE

\* setHoveredItem in a component whose data is not memoized: the render it
\* causes enters generateData again
setHoveredItemUnmemoized(v) ==
  /\ Mounted
  /\ hoveredItem' = v
  /\ gpc' = "init"
  /\ gi' = 1
  /\ year' = StartYear
  /\ month' = 1
  /\ lastValues' = EmptyMap
  /\ dataPoint' = EmptyMap
  /\ data' = << >>
  /\ UNCHANGED << rng, drawCount >>
  /\ UNCHANGED << hiddenItems, hiddenGroups, activeIndex, singleAirlineMode,
                  lastUpdateRef, lastAccepted, now >>

setHoveredItem(v) ==
  /\ Mounted
  /\ hoveredItem' = v
  /\ UNCHANGED << hiddenItems, hiddenGroups, activeIndex, singleAirlineMode,
                  lastUpdateRef, lastAccepted, now >>
  /\ UNCHANGED genVars

\* legend item: onMouseEnter / onMouseLeave
LegendMouseEnter(airline) == setHoveredItem(airline.code)
LegendMouseLeave == setHoveredItem(null)

\* hit-area Line: onMouseEnter / onMouseLeave; hide = !isItemVisible(airline)
\* takes the line, and its handlers, off the chart
LineMouseEnter(airline) == isItemVisible(airline) /\ setHoveredItem(airline.code)
LineMouseLeave(airline) == isItemVisible(airline) /\ setHoveredItem(null)

\* the indexes the chart reports as state.activeTooltipIndex
LastIndex == NumYears * NumMonths - 1
TooltipIndexes == { 0, 5, LastIndex }

\* now - lastUpdateRef.current < throttleMs
Throttled == now - lastUpdateRef < throttleMs

\* handleMouseMove whose rate limit guards the timestamp only
handleMouseMoveStampOnly(activeTooltipIndex) ==
  /\ Mounted
  /\ IF Throttled
       THEN UNCHANGED << lastUpdateRef, lastAccepted >>
       ELSE lastUpdateRef' = now /\ lastAccepted' = now
  /\ IF activeTooltipIndex # undefined
       THEN activeIndex' = activeTooltipIndex
       ELSE UNCHANGED activeIndex
  /\ UNCHANGED << hiddenItems, hiddenGroups, hoveredItem, singleAirlineMode, now >>
  /\ UNCHANGED genVars

handleMouseMove(activeTooltipIndex) ==
  /\ Mounted
  /\ IF Throttled
       THEN UNCHANGED << lastUpdateRef, lastAccepted, activeIndex >>
       ELSE /\ lastUpdateRef' = now
            /\ lastAccepted' = now
            /\ IF activeTooltipIndex # undefined
                 THEN activeIndex' = activeTooltipIndex
                 ELSE UNCHANGED activeIndex
  /\ UNCHANGED << hiddenItems, hiddenGroups, hoveredItem, singleAirlineMode, now >>
  /\ UNCHANGED genVars

\* handleMouseLeave behind the rate limit of handleMouseMove
handleMouseLeaveThrottled ==
  /\ Mounted
  /\ IF Throttled THEN UNCHANGED activeIndex ELSE activeIndex' = NullIndex
  /\ UNCHANGED << hiddenItems, hiddenGroups, hoveredItem, singleAirlineMode,
                  lastUpdateRef, lastAccepted, now >>
  /\ UNCHANGED genVars

\* handleMouseLeave that also forgets the hovered airline
handleMouseLeaveClearsHover ==
  /\ Mounted
  /\ activeIndex' = NullIndex
  /\ hoveredItem' = null
  /\ UNCHANGED << hiddenItems, hiddenGroups, singleAirlineMode,
                  lastUpdateRef, lastAccepted, now >>
  /\ UNCHANGED genVars

handleMouseLeave ==
  /\ Mounted
  /\ activeIndex' = NullIndex
  /\ UNCHANGED << hiddenItems, hiddenGroups, hoveredItem, singleAirlineMode,
                  lastUpdateRef, lastAccepted, now >>
  /\ UNCHANGED genVars

\* components/LineChart.tsx: the handler has no rate limit and keeps no
\* timestamp
handleMouseMoveLC(activeTooltipIndex) ==
  /\ Mounted
  /\ lastAccepted' = now
  /\ IF activeTooltipIndex # undefined
       THEN activeIndex' = activeTooltipIndex
       ELSE UNCHANGED activeIndex
  /\ UNCHANGED << hiddenItems, hiddenGroups, hoveredItem, singleAirlineMode,
                  lastUpdateRef, now >>
  /\ UNCHANGED genVars

\* components/LineChart.tsx: both branches after setActiveIndex(null) return
handleMouseLeaveLC ==
  /\ Mounted
  /\ activeIndex' = NullIndex
  /\ UNCHANGED << hiddenItems, hiddenGroups, hoveredItem, singleAirlineMode,
                  lastUpdateRef, lastAccepted, now >>
  /\ UNCHANGED genVars

\* a mode switch that also forgets the hovered airline and the active index
setSingleAirlineModeResetsPointer(checked) ==
  /\ Mounted
  /\ singleAirlineMode' = checked
  /\ hoveredItem' = null
  /\ activeIndex' = NullIndex
  /\ UNCHANGED << hiddenItems, hiddenGroups, lastUpdateRef, lastAccepted, now >>
  /\ UNCHANGED genVars

\* App: onChange={(e) => setSingleAirlineMode(e.target.checked)}
setSingleAirlineMode(checked) ==
  /\ Mounted
  /\ singleAirlineMode' = checked
  /\ UNCHANGED << hiddenItems, hiddenGroups, hoveredItem, activeIndex,
                  lastUpdateRef, lastAccepted, now >>
  /\ UNCHANGED genVars

\* time passes between two events
Tick(d) ==
  /\ Mounted
  /\ now + d <= Epoch + MaxElapsed
  /\ now' = now + d
  /\ UNCHANGED << hiddenItems, hiddenGroups, hoveredItem, activeIndex,
                  singleAirlineMode, lastUpdateRef, lastAccepted >>
  /\ UNCHANGED genVars

\* the delay between two events that are not in the same millisecond: the
\* rate limit (events in the same millisecond are 0 ms apart)
TickSteps == { throttleMs }

\* ------------------------------------------------------------------------
\* LineChart: what a render derives from the state
\* ------------------------------------------------------------------------

\* getLineOpacity that looks at the hover before the hide sets
getLineOpacityHoverFirst(airline) ==
  IF singleAirlineMode /\ hoveredItem = airline.code THEN FullOpacity
  ELSE IF airline.group \in hiddenGroups THEN HiddenOpacity
  ELSE IF airline.code \in hiddenItems THEN HiddenOpacity
  ELSE IF ~singleAirlineMode THEN FullOpacity
  ELSE IF hoveredItem = null THEN FullOpacity
  ELSE FadedOpacity

getLineOpacity(airline) ==
  IF airline.group \in hiddenGroups THEN HiddenOpacity
  ELSE IF airline.code \in hiddenItems THEN HiddenOpacity
  ELSE IF ~singleAirlineMode THEN FullOpacity
  ELSE IF hoveredItem = null THEN FullOpacity
  ELSE IF hoveredItem = airline.code THEN FullOpacity
  ELSE FadedOpacity

\* components/LineChart.tsx
isItemVisibleLC(airline) ==
  IF airline.group \in hiddenGroups THEN FALSE
  ELSE IF airline.code \in hiddenItems THEN FALSE
  ELSE TRUE

\* components/LineChart.tsx
getLineOpacityLC(airline) ==
  IF ~isItemVisibleLC(airline) THEN HiddenOpacity
  ELSE IF ~singleAirlineMode THEN FullOpacity
  ELSE IF hoveredItem = null THEN FullOpacity
  ELSE IF hoveredItem = airline.code THEN FullOpacity
  ELSE FadedOpacityLC

\* getLineWidth that thickens the hovered line only when it is visible
getLineWidthVisibleOnly(airline) ==
  IF hoveredItem = airline.code /\ isItemVisible(airline)
    THEN HoveredWidth ELSE BaseWidth

\* getLineWidth that thickens the hovered line in single mode only
getLineWidthSingleOnly(airline) ==
  IF singleAirlineMode /\ hoveredItem = airline.code THEN HoveredWidth ELSE BaseWidth

getLineWidth(airline) ==
  IF hoveredItem = airline.code THEN HoveredWidth ELSE BaseWidth

\* strokeDasharray={airline.group === 'discontinued' ? '5 5' : undefined}
Dashed(airline) == airline.group = "discontinued"

\* the comparator of sortedAirlines with the signs exchanged
CompareHoveredFirst(a, b) ==
  IF a.code = hoveredItem THEN 0 - 1
  ELSE IF b.code = hoveredItem THEN 1
  ELSE 0

\* the comparator of sortedAirlines
Compare(a, b) ==
  IF a.code = hoveredItem THEN 1
  ELSE IF b.code = hoveredItem THEN 0 - 1
  ELSE 0

\* components/LineChart.tsx: the comparator of the inline sort
CompareLC(a, b) ==
  IF a.code = hoveredItem THEN 1
  ELSE IF b.code = hoveredItem THEN 0 - 1
  ELSE 0

\* the comparator the sort of implementation impl is called with
Comparator(impl, a, b) == IF impl = "LC" THEN CompareLC(a, b) ELSE Compare(a, b)

RECURSIVE InsertSorted(_, _, _)
\* x put into the sorted sequence s, after every element that the comparator
\* does not place after it
InsertSorted(s, x, impl) ==
  IF s = << >> THEN << x >>
  ELSE IF Comparator(impl, s[Len(s)], x) > 0
    THEN Append(InsertSorted(SubSeq(s, 1, Len(s) - 1), x, impl), s[Len(s)])
    ELSE Append(s, x)

RECURSIVE SortFrom(_, _, _, _)
SortFrom(acc, seq, i, impl) ==
  IF i > Len(seq) THEN acc
  ELSE SortFrom(InsertSorted(acc, seq[i], impl), seq, i + 1, impl)

\* Array.prototype.sort(comparator): a stable sort; no element is compared
\* with itself
ArraySort(seq, impl) == SortFrom(<< >>, seq, 1, impl)

\* [...airlines].sort(...)
sortedAirlines == ArraySort(airlines, "App")

\* components/LineChart.tsx: [...airlines].sort(...)
sortedAirlinesLC == ArraySort(airlines, "LC")

monthNames ==
  << "Jan", "Feb", "Mar", "Apr", "May", "Jun",
     "Jul", "Aug", "Sep", "Oct", "Nov", "Dec" >>

\* formatDate that takes the month name one place too far
formatDateNextMonth(yearDecimal) ==
  LET y == yearDecimal \div 12
      monthIndex == yearDecimal - 12 * y
  IN [ month |-> monthNames[((monthIndex + 1) % 12) + 1], year |-> y ]

\* year = Math.floor(yearDecimal); monthIndex = Math.round((yearDecimal - year) * 12)
formatDate(yearDecimal) ==
  LET y == yearDecimal \div 12
      monthIndex == yearDecimal - 12 * y
  IN [ month |-> monthNames[monthIndex + 1], year |-> y ]

\* value?.toLocaleString() || 0
ValueText(point, code) == IF code \in DOMAIN point THEN point[code] ELSE 0

\* the visible airlines taken from the render order instead of the catalog
visibleAirlinesZOrder == SelectSeq(sortedAirlines, isItemVisible)

\* airlines.filter((a) => isItemVisible(a))
visibleAirlines == SelectSeq(airlines, isItemVisible)

NullTooltip == [ kind |-> "null" ]

\* what CustomTooltip renders: nothing, one airline or all visible airlines
CustomTooltip ==
  IF activeIndex = NullIndex THEN NullTooltip
  ELSE IF ~(activeIndex \in 0..(Len(data) - 1)) THEN NullTooltip
  ELSE LET point == data[activeIndex + 1]
       IN IF singleAirlineMode
            THEN IF hoveredItem = null THEN NullTooltip
                 ELSE IF ~(hoveredItem \in Codes) THEN NullTooltip
                 ELSE [ kind |-> "single",
                        code |-> hoveredItem,
                        date |-> formatDate(point["year"]),
                        value |-> ValueText(point, hoveredItem) ]
            ELSE IF Len(visibleAirlines) = 0 THEN NullTooltip
                 ELSE [ kind |-> "classic",
                        date |-> formatDate(point["year"]),
                        entries |-> [ i \in 1..Len(visibleAirlines) |->
                                        [ code |-> visibleAirlines[i].code,
                                          value |-> ValueText(point,
                                                     visibleAirlines[i].code) ] ] ]

\* the active point shown on every visible line, whatever the mode
activeDotClassicOnly(airline) ==
  /\ activeIndex # NullIndex
  /\ isItemVisible(airline)

\* the activeDot prop of the visible Line is an object (not false)
activeDot(airline) ==
  /\ activeIndex # NullIndex
  /\ IF singleAirlineMode THEN hoveredItem = airline.code
                          ELSE isItemVisible(airline)

\* hide={!isItemVisible(airline)}
hide(airline) == ~isItemVisible(airline)

\* a dot renderer that draws the point of a visible line only, in both modes
dotLCVisibleOnly(airline, index) ==
  /\ isItemVisibleLC(airline)
  /\ activeIndex = index
  /\ singleAirlineMode => hoveredItem = airline.code

\* components/LineChart.tsx, dot={(props) => ...}: TRUE when the renderer
\* returns the circle of radius 6 or 4 for the point at index, FALSE when it
\* returns the circle of radius 0
dotLC(airline, index) ==
  IF singleAirlineMode
    THEN hoveredItem = airline.code /\ activeIndex = index
    ELSE activeIndex = index /\ isItemVisibleLC(airline)

\* ------------------------------------------------------------------------
\* Specification of the chart: mount (generateData), then events
\* ------------------------------------------------------------------------

\* the random source the chart is mounted with: low, high and middle draws
MountSources == { << 0, DrawDen - 1, DrawHalf >> }

Init == rng \in MountSources /\ GenStart

Next ==
  \/ GenInitValue
  \/ GenNewPoint
  \/ GenSeries
  \/ GenPush
  \/ GenReturn
  \/ \E code \in Codes : toggleItem(code)
  \/ \E group \in Groups : toggleGroup(group)
  \/ \E airline \in AirlineSet : LegendMouseEnter(airline)
  \/ LegendMouseLeave
  \/ \E airline \in AirlineSet : LineMouseEnter(airline)
  \/ \E airline \in AirlineSet : LineMouseLeave(airline)
  \/ \E i \in TooltipIndexes \cup { undefined } : handleMouseMove(i)
  \/ handleMouseLeave
  \/ setSingleAirlineMode(~singleAirlineMode)
  \/ \E d \in TickSteps : Tick(d)

Spec == Init /\ [][Next]_vars

\* App rendering the component of components/LineChart.tsx
NextLC ==
  \/ GenInitValue
  \/ GenNewPoint
  \/ GenSeries
  \/ GenPush
  \/ GenReturn
  \/ \E code \in Codes : toggleItem(code)
  \/ \E group \in Groups : toggleGroup(group)
  \/ \E airline \in AirlineSet : LegendMouseEnter(airline)
  \/ LegendMouseLeave
  \/ \E airline \in AirlineSet : LineMouseEnter(airline)
  \/ \E airline \in AirlineSet : LineMouseLeave(airline)
  \/ \E i \in TooltipIndexes \cup { undefined } : handleMouseMoveLC(i)
  \/ handleMouseLeaveLC
  \/ setSingleAirlineMode(~singleAirlineMode)
  \/ \E d \in TickSteps : Tick(d)

SpecLC == Init /\ [][NextLC]_vars

\* a code that no airline of the catalog has, and the first index past the
\* end of data
UnknownCode == "ZZ"
PastLastIndex == LastIndex + 1

\* the handlers called as functions, with arguments the rendered legend and
\* chart would not pass as well as with those they pass
NextApi ==
  \/ GenInitValue
  \/ GenNewPoint
  \/ GenSeries
  \/ GenPush
  \/ GenReturn
  \/ \E code \in Codes \cup { UnknownCode } : toggleItem(code)
  \/ \E v \in Codes \cup { UnknownCode, null } : setHoveredItem(v)
  \/ \E i \in TooltipIndexes \cup { PastLastIndex, undefined } : handleMouseMove(i)
  \/ handleMouseLeave
  \/ \E d \in TickSteps : Tick(d)

SpecApi == Init /\ [][NextApi]_vars

\* ------------------------------------------------------------------------
\* Visibility
\* ------------------------------------------------------------------------

\* C1: in every reachable state an airline of the catalog is visible if and
\* only if its group is not in hiddenGroups and its code is not in
\* hiddenItems; a Line is hidden exactly when its airline is not visible.
C1_VisibleIffNeitherHidden ==
  \A a \in AirlineSet :
    /\ isItemVisible(a) <=> (a.group \notin hiddenGroups /\ a.code \notin hiddenItems)
    /\ isItemVisibleLC(a) <=> (a.group \notin hiddenGroups /\ a.code \notin hiddenItems)
    /\ hide(a) <=> (a.group \in hiddenGroups \/ a.code \in hiddenItems)

\* a state with an airline hidden by its group alone, one hidden individually
\* alone and one visible, reached through hover, pointer and mode events too
C1_Witness ==
  /\ \E a \in AirlineSet :
       a.group \in hiddenGroups /\ a.code \notin hiddenItems /\ ~isItemVisible(a)
  /\ \E a \in AirlineSet :
       a.group \notin hiddenGroups /\ a.code \in hiddenItems /\ ~isItemVisible(a)
  /\ \E a \in AirlineSet : isItemVisible(a)
  /\ hoveredItem # null
  /\ activeIndex # NullIndex
  /\ ~singleAirlineMode

\* C2: a step that puts group g into hiddenGroups leaves every airline of g
\* invisible and the visibility of every other airline as it was; while g is
\* in hiddenGroups, every step other than toggleGroup(g) (toggleItem on any
\* code included) leaves g hidden and every airline of g invisible.
C2_HiddenGroupStaysInvisible ==
  [][ \A g \in Groups :
        /\ (g \notin hiddenGroups /\ toggleGroup(g)) =>
             /\ \A a \in AirlinesOf(g) : ~(isItemVisible(a))'
             /\ \A a \in AirlineSet \ AirlinesOf(g) :
                  (isItemVisible(a))' = isItemVisible(a)
        /\ (g \in hiddenGroups /\ ~toggleGroup(g)) =>
             /\ g \in hiddenGroups'
             /\ \A a \in AirlinesOf(g) : ~(isItemVisible(a))' ]_vars

\* group hidden, one of its airlines individually hidden and another not,
\* all of them invisible, and the other group's airlines visible
C2_Witness ==
  \E g \in hiddenGroups :
    /\ \E a \in AirlinesOf(g) : a.code \in hiddenItems
    /\ \E a \in AirlinesOf(g) : a.code \notin hiddenItems
    /\ \A a \in AirlinesOf(g) : ~isItemVisible(a)
    /\ \A a \in AirlineSet \ AirlinesOf(g) : isItemVisible(a)

\* C3: a step changes hiddenGroups only by flipping one group's membership,
\* and then leaves hiddenItems, hoveredItem, activeIndex and data unchanged;
\* a step changes hiddenItems only by flipping one code's membership, and
\* then leaves hiddenGroups, hoveredItem, activeIndex and data unchanged;
\* toggleGroup(g) flips g and toggleItem(c) flips c.
C3_ToggleFrame ==
  [][ /\ hiddenGroups' # hiddenGroups =>
           /\ \E g \in Groups :
                /\ hiddenGroups' \ { g } = hiddenGroups \ { g }
                /\ (g \in hiddenGroups') # (g \in hiddenGroups)
           /\ UNCHANGED << hiddenItems, hoveredItem, activeIndex, data >>
      /\ hiddenItems' # hiddenItems =>
           /\ \E c \in Codes :
                /\ hiddenItems' \ { c } = hiddenItems \ { c }
                /\ (c \in hiddenItems') # (c \in hiddenItems)
           /\ UNCHANGED << hiddenGroups, hoveredItem, activeIndex, data >>
      /\ \A g \in Groups :
           toggleGroup(g) =>
             /\ (g \in hiddenGroups') # (g \in hiddenGroups)
             /\ hiddenGroups' \ { g } = hiddenGroups \ { g }
      /\ \A c \in Codes :
           toggleItem(c) =>
             /\ (c \in hiddenItems') # (c \in hiddenItems)
             /\ hiddenItems' \ { c } = hiddenItems \ { c } ]_vars

\* both hide sets, the hovered code and the active index hold a value
C3_Witness ==
  /\ hiddenGroups # {}
  /\ hiddenItems # {}
  /\ hoveredItem # null
  /\ activeIndex # NullIndex
  /\ Len(data) = NumYears * NumMonths

\* ------------------------------------------------------------------------
\* The generated matrix
\* ------------------------------------------------------------------------

OperatingCodeSet == { a.code : a \in AirlinesOf("operating") }
GroupOf(code) == IF code \in OperatingCodeSet THEN "operating" ELSE "discontinued"
BandMin(group) == IF group = "operating" THEN OperatingMin ELSE DiscontinuedMin
BandMax(group) == IF group = "operating" THEN OperatingMax ELSE DiscontinuedMax

Abs(x) == IF x >= 0 THEN x ELSE 0 - x

\* the calendar (year, month) of sample t of data (t from 1)
SampleYear(t) == StartYear + ((t - 1) \div NumMonths)
SampleMonth(t) == ((t - 1) % NumMonths) + 1

\* every airline value of sample point is a natural number inside the band
InBand(point) ==
  \A c \in (DOMAIN point) \ { "year" } :
    /\ point[c] \in Nat
    /\ point[c] >= BandMin(GroupOf(c))
    /\ point[c] <= BandMax(GroupOf(c))

\* C4: at every step of generateData, for every random source, every value
\* carried in lastValues lies inside its group's band, and every value stored
\* in a sample is a natural number inside the band (operating 800..5500,
\* discontinued 100..3500), at the steps where a trend multiplier fires too.
C4_BandNeverLeft ==
  /\ \A c \in DOMAIN lastValues :
       /\ lastValues[c] >= BandMin(GroupOf(c)) * Scale
       /\ lastValues[c] <= BandMax(GroupOf(c)) * Scale
  /\ InBand(dataPoint)
  /\ \A t \in 1..Len(data) : InBand(data[t])
  /\ BandMin("operating") = 800 /\ BandMax("operating") = 5500
  /\ BandMin("discontinued") = 100 /\ BandMax("discontinued") = 3500

\* a sample of the recovery window (2021) in which an operating airline and
\* a discontinued airline both sit on the upper edge of their band, with the
\* next perturbed and trended value of the operating airline above the band
C4_Witness ==
  /\ gpc = "series"
  /\ gi = 1
  /\ Len(data) >= 1
  /\ SampleYear(Len(data)) = RecoveryYear
  /\ RecoveryFires(year, month)
  /\ \E a \in AirlinesOf("operating") :
       /\ data[Len(data)][a.code] = OperatingMax
       /\ lastValues[a.code] = OperatingMax * Scale
       /\ Trended("operating", Perturbed(lastValues[a.code], DrawDen - 1),
                  year, month) > OperatingMax * Scale
  /\ \E a \in AirlinesOf("discontinued") :
       data[Len(data)][a.code] = DiscontinuedMax

\* C5: any two consecutive samples of one airline differ by at most 8% of
\* the earlier one.
C5_ConsecutiveWithinEightPercent ==
  \A t \in 2..Len(data) :
    \A c \in Codes :
      100 * Abs(data[t][c] - data[t - 1][c]) <= MaxVariationPct * data[t - 1][c]

\* C6: whenever two consecutive samples of one airline differ by more than
\* 8% of the earlier one, the later sample sits on an edge of the band.
C6_LargeJumpOnlyAtBandEdge ==
  \A t \in 2..Len(data) :
    \A c \in Codes :
      100 * Abs(data[t][c] - data[t - 1][c]) > MaxVariationPct * data[t - 1][c]
        => data[t][c] \in { BandMin(GroupOf(c)), BandMax(GroupOf(c)) }

\* C7: the matrix generateData returns has NumYears * 12 = 180 samples, with
\* strictly increasing time coordinates, each holding a value for every
\* airline; every sample pushed before the return is complete as well.
C7_MatrixShape ==
  /\ gpc = "done" => Len(data) = 180 /\ Len(data) = NumYears * NumMonths
  /\ Len(data) <= NumYears * NumMonths
  /\ \A t \in 1..Len(data) : DOMAIN data[t] = { "year" } \cup Codes
  /\ \A t \in 2..Len(data) : data[t]["year"] > data[t - 1]["year"]

\* generateData has returned a matrix that ends in December of the last year
C7_Witness ==
  /\ gpc = "done"
  /\ Len(data) = 180
  /\ data[1]["year"] = YearDecimal(StartYear, 1)
  /\ data[Len(data)]["year"] = YearDecimal(LastYear, NumMonths)

\* ------------------------------------------------------------------------
\* Render attributes and tooltip
\* ------------------------------------------------------------------------

\* the opacity rule, with faded the constant of the implementation
OpacityRule(a, faded) ==
  IF ~(a.group \notin hiddenGroups /\ a.code \notin hiddenItems) THEN 0
  ELSE IF ~singleAirlineMode \/ hoveredItem = null \/ hoveredItem = a.code
    THEN 100
  ELSE faded

\* C8: in every state the opacity of an airline is 0 when it is not visible
\* (the hovered airline included); otherwise 1 when the mode is classic, or
\* nothing is hovered, or the airline is the hovered one; otherwise the faded
\* constant, which lies strictly between 0 and 1 and is the same for every
\* airline (0.08 in App.tsx, 0.15 in components/LineChart.tsx).
C8_OpacityRule ==
  /\ \A a \in AirlineSet :
       /\ getLineOpacity(a) = OpacityRule(a, FadedOpacity)
       /\ getLineOpacityLC(a) = OpacityRule(a, FadedOpacityLC)
  /\ 0 < FadedOpacity /\ FadedOpacity < 100
  /\ 0 < FadedOpacityLC /\ FadedOpacityLC < 100

\* single mode, the hovered airline is hidden (opacity 0) and two visible
\* airlines carry the same faded opacity
C8_Witness ==
  /\ singleAirlineMode
  /\ \E h \in AirlineSet :
       /\ hoveredItem = h.code
       /\ ~isItemVisible(h)
       /\ getLineOpacity(h) = 0
  /\ \E a, b \in AirlineSet :
       /\ a # b
       /\ isItemVisible(a) /\ isItemVisible(b)
       /\ getLineOpacity(a) = FadedOpacity /\ getLineOpacity(b) = FadedOpacity
       /\ getLineOpacityLC(a) = FadedOpacityLC

\* seq without the airlines of code c
Without(seq, c) == SelectSeq(seq, LAMBDA a : a.code # c)

\* seq holds every airline of the catalog exactly once
IsCatalogPermutation(seq) ==
  /\ Len(seq) = Len(airlines)
  /\ { seq[i] : i \in 1..Len(seq) } = AirlineSet
  /\ \A i, j \in 1..Len(seq) : seq[i] = seq[j] => i = j

\* seq is the catalog with the hovered airline moved to the end
HoveredLast(seq) ==
  /\ IsCatalogPermutation(seq)
  /\ IF hoveredItem \in Codes
       THEN /\ seq[Len(seq)].code = hoveredItem
            /\ Without(seq, hoveredItem) = Without(airlines, hoveredItem)
       ELSE seq = airlines

\* C9: the render order is a permutation of the catalog; with a hovered code
\* its last entry is the hovered airline and the others keep their catalog
\* order; with no hover it is the catalog order.
C9_HoveredRendersLast ==
  HoveredLast(sortedAirlines) /\ HoveredLast(sortedAirlinesLC)

\* the first airline of the catalog is hovered and is rendered last
C9_Witness ==
  /\ hoveredItem = airlines[1].code
  /\ sortedAirlines[Len(airlines)] = airlines[1]
  /\ sortedAirlines[1] = airlines[2]
  /\ sortedAirlines # airlines

\* C10: in single mode the tooltip is empty when nothing is hovered or no
\* index is active; otherwise it shows the hovered code, the month and year
\* of sample activeIndex and the hovered airline's value in that sample.
C10_SingleTooltip ==
  (Mounted /\ singleAirlineMode) =>
    IF hoveredItem = null \/ activeIndex = NullIndex
      THEN CustomTooltip = NullTooltip
      ELSE CustomTooltip =
             [ kind |-> "single",
               code |-> hoveredItem,
               date |-> [ month |-> monthNames[SampleMonth(activeIndex + 1)],
                          year |-> SampleYear(activeIndex + 1) ],
               value |-> data[activeIndex + 1][hoveredItem] ]

\* hover LX with index 5 active: the tooltip shows LX's value of June 2010,
\* which is not the value of another airline or of a neighbouring sample
C10_Witness ==
  /\ Mounted
  /\ singleAirlineMode
  /\ hoveredItem = "LX"
  /\ activeIndex = 5
  /\ CustomTooltip.kind = "single"
  /\ CustomTooltip.code = "LX"
  /\ CustomTooltip.date = [ month |-> "Jun", year |-> 2010 ]
  /\ CustomTooltip.value = data[6]["LX"]
  /\ data[6]["LX"] # data[6]["BA"]
  /\ data[6]["LX"] # data[5]["LX"]
  /\ data[6]["LX"] # data[7]["LX"]

\* position of a code in the catalog
CatalogIndex(code) == CHOOSE k \in 1..Len(airlines) : airlines[k].code = code

\* the codes of the airlines neither hidden themselves nor through their group
VisibleCodes ==
  { a.code : a \in { b \in AirlineSet :
      b.group \notin hiddenGroups /\ b.code \notin hiddenItems } }

\* C11: in classic mode the tooltip is empty when no index is active or no
\* airline is visible; otherwise it carries the month and year of sample
\* activeIndex and one entry for each visible airline and for no other, in
\* catalog order, each with the airline's value in that sample, whatever
\* the hovered airline is.
C11_ClassicTooltip ==
  (Mounted /\ ~singleAirlineMode) =>
    IF activeIndex = NullIndex \/ VisibleCodes = {}
      THEN CustomTooltip = NullTooltip
      ELSE /\ CustomTooltip.kind = "classic"
           /\ CustomTooltip.date =
                [ month |-> monthNames[SampleMonth(activeIndex + 1)],
                  year |-> SampleYear(activeIndex + 1) ]
           /\ Len(CustomTooltip.entries) = Cardinality(VisibleCodes)
           /\ { CustomTooltip.entries[i].code :
                  i \in 1..Len(CustomTooltip.entries) } = VisibleCodes
           /\ \A i, j \in 1..Len(CustomTooltip.entries) :
                i < j => CatalogIndex(CustomTooltip.entries[i].code)
                           < CatalogIndex(CustomTooltip.entries[j].code)
           /\ \A i \in 1..Len(CustomTooltip.entries) :
                CustomTooltip.entries[i].value
                  = data[activeIndex + 1][CustomTooltip.entries[i].code]

\* classic mode, BA hidden, LX hovered and therefore rendered last, index 5
\* active: the tooltip lists LX, CX, LZ in that order with their values of
\* June 2010
C11_Witness ==
  /\ Mounted
  /\ ~singleAirlineMode
  /\ hiddenItems = { "BA" }
  /\ hiddenGroups = {}
  /\ hoveredItem = "LX"
  /\ activeIndex = 5
  /\ sortedAirlines[Len(sortedAirlines)].code = "LX"
  /\ CustomTooltip.kind = "classic"
  /\ CustomTooltip.date = [ month |-> "Jun", year |-> 2010 ]
  /\ CustomTooltip.entries =
       << [ code |-> "LX", value |-> data[6]["LX"] ],
          [ code |-> "CX", value |-> data[6]["CX"] ],
          [ code |-> "LZ", value |-> data[6]["LZ"] ] >>
  /\ data[6]["LX"] # data[6]["CX"]

\* C12: an airline's active point is requested only while an index is
\* active; then, in single mode, for the hovered airline and for no other,
\* and in classic mode for exactly the visible airlines. The dot renderer
\* of components/LineChart.tsx draws a point of some index for the same
\* airlines.
C12_ActivePointFlag ==
  Mounted =>
    \A a \in AirlineSet :
      LET expected ==
            /\ activeIndex # NullIndex
            /\ IF singleAirlineMode THEN a.code = hoveredItem
                                    ELSE a.code \in VisibleCodes
      IN /\ activeDot(a) <=> expected
         /\ (\E index \in 0..LastIndex : dotLC(a, index)) <=> expected

\* single mode, index 5 active, BA hovered, nothing hidden: BA alone has the
\* active point, although the three others are visible too
C12_Witness ==
  /\ Mounted
  /\ singleAirlineMode
  /\ activeIndex = 5
  /\ hoveredItem = "BA"
  /\ VisibleCodes = Codes
  /\ { a.code : a \in { b \in AirlineSet : activeDot(b) } } = { "BA" }
  /\ { a.code : a \in { b \in AirlineSet : dotLC(b, 5) } } = { "BA" }

\* a pointer-move over the plot, handled by either implementation
PointerMove(i) == handleMouseMove(i) \/ handleMouseMoveLC(i)

\* C13: a pointer-move less than 16 ms after the last one that was not
\* dropped changes neither the active index nor the time of the last
\* accepted move; one that comes 16 ms or more after it is accepted; two
\* accepted moves are therefore at least 16 ms apart.
C13_MoveWithinThrottleDropped ==
  [][ /\ \A i \in TooltipIndexes \cup { undefined } :
          PointerMove(i) =>
            IF now - lastAccepted < throttleMs
              THEN UNCHANGED << activeIndex, lastAccepted >>
              ELSE /\ lastAccepted' = now
                   /\ i # undefined => activeIndex' = i
      /\ lastAccepted' # lastAccepted =>
            lastAccepted' - lastAccepted >= throttleMs ]_vars

\* the catalog airlines that are visible, in catalog order
VisibleInCatalogOrder ==
  SelectSeq(airlines, LAMBDA a : a.code \in VisibleCodes)

\* the tooltip that index i calls for under the current hide sets, hovered
\* airline and mode
TooltipAt(i) ==
  LET date == [ month |-> monthNames[SampleMonth(i + 1)],
                year |-> SampleYear(i + 1) ]
  IN IF singleAirlineMode
       THEN IF hoveredItem = null THEN NullTooltip
            ELSE [ kind |-> "single", code |-> hoveredItem, date |-> date,
                   value |-> data[i + 1][hoveredItem] ]
       ELSE IF VisibleCodes = {} THEN NullTooltip
            ELSE [ kind |-> "classic", date |-> date,
                   entries |-> [ k \in 1..Len(VisibleInCatalogOrder) |->
                     [ code |-> VisibleInCatalogOrder[k].code,
                       value |-> data[i + 1][VisibleInCatalogOrder[k].code] ] ] ]

\* C14: a dropped pointer-move changes nothing, and the accepted move that
\* follows, carrying index i, leaves the active index equal to i; the
\* tooltip and the active points after it are those that i, the hide sets,
\* the hovered airline and the mode call for.
C14_AcceptedMoveSetsIndex ==
  [][ \A i \in TooltipIndexes :
        handleMouseMove(i) =>
          IF Throttled
            THEN UNCHANGED vars
            ELSE /\ activeIndex' = i
                 /\ CustomTooltip' = TooltipAt(i)
                 /\ \A a \in AirlineSet :
                      (activeDot(a))' <=>
                        IF singleAirlineMode THEN a.code = hoveredItem
                                             ELSE a.code \in VisibleCodes ]_vars

\* the move carrying the last index was accepted 16 ms after the start, LX
\* hovered in single mode: the last index is the active one and the tooltip
\* is LX's value of December 2024
C14_Witness ==
  /\ Mounted
  /\ now = Epoch + throttleMs
  /\ lastUpdateRef = now
  /\ activeIndex = LastIndex
  /\ hoveredItem = "LX"
  /\ singleAirlineMode
  /\ CustomTooltip = [ kind |-> "single", code |-> "LX",
                       date |-> [ month |-> "Dec", year |-> 2024 ],
                       value |-> data[Len(data)]["LX"] ]

\* C15: a step that changes the mode negates it and changes nothing else:
\* the hide sets, the hovered airline, the active index and the matrix stay
\* as they were, so a second flip gives back the state, and with it every
\* render attribute and the tooltip, of before the first.
C15_ModeFlipFrame ==
  [][ singleAirlineMode' # singleAirlineMode =>
        /\ singleAirlineMode' = ~singleAirlineMode
        /\ UNCHANGED << hiddenItems, hiddenGroups, hoveredItem, activeIndex,
                        data, lastUpdateRef, now >>
        /\ UNCHANGED genVars ]_vars

\* classic mode, reached by a flip, with a hidden airline, a hidden group, a
\* hovered airline and an active index that the flip has kept
C15_Witness ==
  /\ Mounted
  /\ ~singleAirlineMode
  /\ hiddenItems = { "BA" }
  /\ hiddenGroups = { "discontinued" }
  /\ hoveredItem = "LX"
  /\ activeIndex = 5
  /\ Len(data) = NumYears * NumMonths

\* C16: a mode flip changes neither the hide sets, the hovered airline nor
\* the active index, so the states before and after it differ in the mode
\* only; between them the stroke width, the dash flag and the active-point
\* flag of every airline are the same, and so is the render order: the
\* comparator that sorts the catalog gives the same result for every pair.
C16_ModeChangesOnlyOpacityAndTooltip ==
  [][ singleAirlineMode' # singleAirlineMode =>
        /\ \A a \in AirlineSet :
              /\ (getLineWidth(a))' = getLineWidth(a)
              /\ (Dashed(a))' = Dashed(a)
              /\ (activeDot(a))' <=> activeDot(a)
        /\ \A a, b \in AirlineSet :
              /\ (Compare(a, b))' = Compare(a, b)
              /\ (CompareLC(a, b))' = CompareLC(a, b) ]_vars

\* C16, amended: between two states that differ in the mode only, the
\* stroke width and the dash flag of every airline are the same, and so is
\* the render order: the comparator that sorts the catalog gives the same
\* result for every pair. The opacity, the tooltip and the active-point
\* flag may differ.
C16_ModeKeepsWidthDashOrder ==
  [][ singleAirlineMode' # singleAirlineMode =>
        /\ \A a \in AirlineSet :
              /\ (getLineWidth(a))' = getLineWidth(a)
              /\ (Dashed(a))' = Dashed(a)
        /\ \A a, b \in AirlineSet :
              /\ (Compare(a, b))' = Compare(a, b)
              /\ (CompareLC(a, b))' = CompareLC(a, b) ]_vars

\* classic mode with LX hovered and index 5 active: BA is at full opacity
\* and has the active point; in single mode, hide sets, hover and index
\* being the same, BA is faded and LX alone has the point. LX is 3 wide
\* and rendered last in both.
C16_Witness ==
  /\ Mounted
  /\ ~singleAirlineMode
  /\ hoveredItem = "LX"
  /\ activeIndex = 5
  /\ VisibleCodes = Codes
  /\ activeDot(airlines[2])
  /\ airlines[2].code = "BA"
  /\ getLineOpacity(airlines[2]) = FullOpacity
  /\ getLineWidth(airlines[1]) = HoveredWidth
  /\ sortedAirlines[Len(sortedAirlines)].code = "LX"

\* C17: setHoveredItem(x) leaves hoveredItem equal to x, whatever it was,
\* and does not touch the active index; a pointer-move and the pointer
\* leaving the plot do not touch hoveredItem. No step changes both.
C17_HoverAndIndexIndependent ==
  [][ /\ \A x \in Codes \cup { null } :
            setHoveredItem(x) => hoveredItem' = x /\ activeIndex' = activeIndex
      /\ \A a \in AirlineSet :
            (LegendMouseEnter(a) \/ LineMouseEnter(a))
              => hoveredItem' = a.code /\ activeIndex' = activeIndex
      /\ \A i \in TooltipIndexes \cup { undefined } :
            handleMouseMove(i) => hoveredItem' = hoveredItem
      /\ handleMouseLeave =>
            hoveredItem' = hoveredItem /\ activeIndex' = NullIndex
      /\ hoveredItem' # hoveredItem => activeIndex' = activeIndex
      /\ activeIndex' # activeIndex => hoveredItem' = hoveredItem ]_vars

\* an airline is hovered and no index is active, after a pointer-move was
\* accepted: the pointer has left the plot and the hover has stayed
C17_Witness ==
  /\ Mounted
  /\ hoveredItem = "CX"
  /\ activeIndex = NullIndex
  /\ lastUpdateRef # 0

\* the other mixed state: an index is active and no airline is hovered
C17_IndexWithoutHover ==
  /\ Mounted
  /\ hoveredItem = null
  /\ activeIndex = 5

\* C18: no interaction event happens before generateData has returned; once
\* it has, no step enters it again, draws another random number or changes
\* the matrix.
C18_MatrixGeneratedOnce ==
  [][ /\ uiVars' # uiVars => Mounted /\ UNCHANGED genVars
      /\ Mounted => UNCHANGED genVars ]_vars

\* after a toggle of each kind, a hover, an accepted pointer-move, a mode
\* flip and 16 ms, the matrix is the one generateData returned: 180 samples
\* made with one draw for each airline and one for each airline and month
C18_Witness ==
  /\ Mounted
  /\ hiddenItems # {}
  /\ hiddenGroups # {}
  /\ hoveredItem # null
  /\ activeIndex # NullIndex
  /\ ~singleAirlineMode
  /\ now = Epoch + throttleMs
  /\ Len(data) = NumYears * NumMonths
  /\ drawCount = NumAirlines * (1 + NumYears * NumMonths)

\* C19: toggleItem and setHoveredItem called with a code that is not in the
\* catalog, and a pointer-move carrying an index outside 0..Len(data)-1,
\* leave the state as it was: no such code is ever in hiddenItems or in
\* hoveredItem, and no such index is ever the active one.
C19_InvalidInputsNeverAccepted ==
  Mounted =>
    /\ hiddenItems \subseteq Codes
    /\ hoveredItem \in Codes \cup { null }
    /\ activeIndex \in { NullIndex } \cup 0..LastIndex

\* Math.random() returns 0.5 at every call
ConstantHalf == \A k \in 1..Len(rng) : rng[k] = DrawHalf

\* a trend multiplier of the group applies to the sample of (y, m)
MultiplierFires(group, y, m) ==
  IF group = "operating"
    THEN ShockFires(y, m) \/ RecoveryFires(y, m)
    ELSE DeclineFires(y) \/ AcceleratedDeclineFires(y)

\* C20: when Math.random() always returns 0.5, the perturbation of every
\* carried value is zero, every sample of the first
\* year is 3000 for an operating airline and 1750 for a discontinued one,
\* and every later sample at which no trend multiplier of the airline's
\* group applies equals the airline's sample of the month before.
C20_ZeroPerturbation ==
  ConstantHalf =>
    /\ \A c \in DOMAIN lastValues :
          Perturbed(lastValues[c], Draw(rng, drawCount)) = lastValues[c]
    /\ \A t \in 1..Len(data) : \A c \in Codes :
          /\ t <= NumMonths =>
                data[t][c] = IF GroupOf(c) = "operating" THEN 3000 ELSE 1750
          /\ (t >= 2 /\ ~MultiplierFires(GroupOf(c), SampleYear(t), SampleMonth(t)))
                => data[t][c] = data[t - 1][c]

\* the whole matrix made with 0.5: LX is 3000 from January 2010 to February
\* 2020 and 2550 in March 2020, the first month of the shock; CX is 1750
\* until December 2015 and lower in January 2016
C20_Witness ==
  /\ ConstantHalf
  /\ gpc = "done"
  /\ data[1]["LX"] = 3000
  /\ data[12]["LX"] = 3000
  /\ data[122]["LX"] = 3000
  /\ data[123]["LX"] = 2550
  /\ data[12]["CX"] = 1750
  /\ data[72]["CX"] = 1750
  /\ data[73]["CX"] < 1750

\* the airlines that the point under construction has a value for
PointCodes == DOMAIN dataPoint \ { "year" }

\* C21: the value carried forward for an airline is the rounded integer
\* that the sample of the same step stores for it.
C21_CarriedValueIsRounded ==
  \A c \in PointCodes : lastValues[c] = dataPoint[c] * Scale

\* C21, amended: the step of an airline carries forward the clamped value
\* itself, not rounded, and stores its rounding to the nearest integer in
\* the sample; the two differ by at most one half.
C21_CarriedValueIsUnrounded ==
  [][ GenSeries =>
        LET airline == airlines[gi]
            newValue == NewValue(airline.group, lastValues[airline.code],
                                 Draw(rng, drawCount), year, month)
        IN /\ lastValues'[airline.code] = newValue
           /\ dataPoint'[airline.code] = MathRound(newValue)
           /\ 2 * Abs(newValue - dataPoint'[airline.code] * Scale) <= Scale ]_vars

\* LX's sample is being built: its carried value is not an integer, and
\* the sample holds the integer nearest to it
C21_Witness ==
  /\ gpc = "series"
  /\ "LX" \in PointCodes
  /\ lastValues["LX"] % Scale # 0
  /\ dataPoint["LX"] = MathRound(lastValues["LX"])
  /\ dataPoint["LX"] * Scale # lastValues["LX"]

C23_TwentyAirlines ==
  Mounted =>
    /\ Len(generateAirlines) = 20
    /\ Cardinality({ i \in 1..Len(generateAirlines) :
                       generateAirlines[i].group = "operating" }) = 10
    /\ Cardinality({ i \in 1..Len(generateAirlines) :
                       generateAirlines[i].group = "discontinued" }) = 10

\* C24: an airline's stroke width is 3 when it is the hovered airline and 2
\* otherwise, in both modes and whether or not the airline is visible; at
\* most one airline is 3 wide.
C24_WidthRule ==
  Mounted =>
    /\ \A a \in AirlineSet :
          getLineWidth(a) = IF a.code = hoveredItem THEN 3 ELSE 2
    /\ Cardinality({ a \in AirlineSet : getLineWidth(a) = 3 }) <= 1

\* classic mode, BA hidden and hovered in the legend: BA alone is 3 wide
C24_Witness ==
  /\ Mounted
  /\ ~singleAirlineMode
  /\ hiddenItems = { "BA" }
  /\ hoveredItem = "BA"
  /\ { a.code : a \in { b \in AirlineSet : getLineWidth(b) = 3 } } = { "BA" }
  /\ { a.code : a \in { b \in AirlineSet : getLineWidth(b) = 2 } }
       = Codes \ { "BA" }

\* the value the generator is about to multiply: the perturbed value of
\* airline c at the current draw
PerturbedNow(c) == Perturbed(lastValues[c], Draw(rng, drawCount))

\* the generator is inside the years and months loops
InLoops == gpc \in { "series", "next" } /\ year <= LastYear

\* C25: the perturbed value of an operating airline is multiplied by 0.85
\* at the steps of March to June 2020 and at no other, and by 1.02 at the
\* steps of 2021 and of January to June 2022 and at no other; no step has
\* both multipliers; the perturbed value of a discontinued airline is
\* never multiplied by 0.85 or by 1.02: its result lies above 0.85 times
\* the value and not above the value.
C25_OperatingWindows ==
  InLoops =>
    \A c \in DOMAIN lastValues :
      LET v == PerturbedNow(c)
          shock == year = 2020 /\ month \in 3..6
          recovery == year = 2021 \/ (year = 2022 /\ month \in 1..6)
      IN /\ ~(shock /\ recovery)
         /\ GroupOf(c) = "operating" =>
               Trended("operating", v, year, month) =
                 IF shock THEN MulRatio(v, 850, 1000)
                 ELSE IF recovery THEN MulRatio(v, 1020, 1000)
                 ELSE v
         /\ GroupOf(c) = "discontinued" =>
               /\ 1000 * Trended("discontinued", v, year, month) > 850 * v
               /\ Trended("discontinued", v, year, month) <= v

\* the matrix made with Math.random() always 0.5: LX keeps 3000 until
\* February 2020, is 2550 in March 2020, falls until June and stays from
\* July to December 2020, rises from January 2021 to June 2022 and stays
\* in July 2022; CX does not lose 15% in March 2020
C25_Witness ==
  /\ ConstantHalf
  /\ gpc = "done"
  /\ data[122]["LX"] = 3000
  /\ data[123]["LX"] = 2550
  /\ data[126]["LX"] < data[125]["LX"]
  /\ data[127]["LX"] = data[126]["LX"]
  /\ data[132]["LX"] = data[126]["LX"]
  /\ data[133]["LX"] > data[132]["LX"]
  /\ data[150]["LX"] > data[149]["LX"]
  /\ data[151]["LX"] = data[150]["LX"]
  /\ 100 * data[123]["CX"] > 95 * data[122]["CX"]

FirstCodes(n) == { airlines[i].code : i \in 1..n }

\* C27: the draws are consumed in a fixed order. While the initial values
\* are made, draw number gi goes to the gi-th airline of the catalog;
\* afterwards the draws of sample t, one for each airline in catalog
\* order, all come after the draws of sample t - 1 and before the sample is
\* appended, complete; the samples are appended in time order, and the
\* generator returns after NumAirlines * (1 + 180) draws.
C27_DrawOrder ==
  /\ \A t \in 1..Len(data) :
        /\ DOMAIN data[t] = Codes \cup { "year" }
        /\ data[t]["year"] = YearDecimal(SampleYear(t), SampleMonth(t))
  /\ gpc = "init" =>
        /\ drawCount = gi - 1
        /\ DOMAIN lastValues = FirstCodes(gi - 1)
        /\ data = << >>
  /\ gpc = "series" =>
        /\ drawCount = NumAirlines * (1 + Len(data)) + (gi - 1)
        /\ PointCodes = FirstCodes(gi - 1)
        /\ dataPoint["year"] = YearDecimal(SampleYear(Len(data) + 1),
                                            SampleMonth(Len(data) + 1))
        /\ year = SampleYear(Len(data) + 1) /\ month = SampleMonth(Len(data) + 1)
  /\ gpc = "next" => drawCount = NumAirlines * (1 + Len(data))
  /\ gpc = "done" =>
        /\ Len(data) = 180
        /\ drawCount = NumAirlines * (1 + 180)

\* the second sample is under construction: the first is complete, LX and
\* BA have their values of the second, CX and LZ not yet, and 4 + 4 + 2
\* draws were made
C27_Witness ==
  /\ gpc = "series"
  /\ Len(data) = 1
  /\ gi = 3
  /\ PointCodes = { "LX", "BA" }
  /\ DOMAIN data[1] = { "year", "LX", "BA", "CX", "LZ" }
  /\ drawCount = 10

\* C28: the pointer leaving the plot is never dropped: whenever an index
\* is active the leave can clear it, however short the time since the last
\* accepted pointer-move, and after it no index is active,
\* the tooltip is empty, no airline has the active point, and the hide
\* sets, the hovered airline, the mode and the rate-limit timestamp are as
\* before.
C28_LeaveNeverThrottled ==
  /\ [](Mounted /\ activeIndex # NullIndex => ENABLED << handleMouseLeave >>_vars)
  /\ [][ handleMouseLeave =>
          /\ activeIndex' = NullIndex
          /\ CustomTooltip' = NullTooltip
          /\ \A a \in AirlineSet : ~(activeDot(a))'
          /\ UNCHANGED << hiddenItems, hiddenGroups, hoveredItem,
                          singleAirlineMode, lastUpdateRef, data >> ]_vars

\* a pointer-move was accepted in this millisecond, so that a further move
\* would be dropped, and no index is active; LX is still hovered and BA
\* still hidden
C28_Witness ==
  /\ Mounted
  /\ lastUpdateRef = now
  /\ Throttled
  /\ activeIndex = NullIndex
  /\ hoveredItem = "LX"
  /\ hiddenItems = { "BA" }
  /\ CustomTooltip = NullTooltip
  /\ \A a \in AirlineSet : ~activeDot(a)

\* ------------------------------------------------------------------------
\* components/LineChart.tsx: the generator and the render of the second
\* implementation
\* ------------------------------------------------------------------------

\* Math.random() * 2000 + 2000, Math.random() * 1500 + 1000
InitialValueLC(group, r) ==
  IF group = "operating"
    THEN RoundDiv(r * 2000 * Scale, DrawDen) + 2000 * Scale
    ELSE RoundDiv(r * 1500 * Scale, DrawDen) + 1000 * Scale

\* the body of the inner airlines.forEach up to lastValues[airline.code]
NewValueLC(group, lastValue, r, y, m) ==
  LET maxVariation == MulRatio(lastValue, 8, 100)
      variation == RoundDiv((2 * r - DrawDen) * maxVariation, DrawDen)
      v0 == lastValue + variation
  IN IF group = "operating"
       THEN LET v1 == IF y = 2020 /\ m >= 3 /\ m <= 6
                        THEN MulRatio(v0, 850, 1000) ELSE v0
                v2 == IF y = 2021 \/ (y = 2022 /\ m <= 6)
                        THEN MulRatio(v1, 1020, 1000) ELSE v1
            IN Max2(800 * Scale, Min2(5500 * Scale, v2))
       ELSE LET v1 == IF y > 2015 THEN MulRatio(v0, 997, 1000) ELSE v0
                v2 == IF y > 2018 THEN MulRatio(v1, 995, 1000) ELSE v1
            IN Max2(100 * Scale, Min2(3500 * Scale, v2))

\* { year: year + (month - 1) / 12 }, in twelfths of a year
YearDecimalLC(y, m) == 12 * y + (m - 1)

getLineWidthLC(airline) == IF hoveredItem = airline.code THEN 3 ELSE 2

DashedLC(airline) == airline.group = "discontinued"

formatDateLC(yearDecimal) ==
  LET y == yearDecimal \div 12
      monthIndex == yearDecimal - 12 * y
  IN [ month |-> monthNames[monthIndex + 1], year |-> y ]

visibleAirlinesLC == SelectSeq(airlines, isItemVisibleLC)

CustomTooltipLC ==
  IF activeIndex = NullIndex THEN NullTooltip
  ELSE IF ~(activeIndex \in 0..(Len(data) - 1)) THEN NullTooltip
  ELSE LET point == data[activeIndex + 1]
           value(code) == IF code \in DOMAIN point THEN point[code] ELSE 0
       IN IF singleAirlineMode
            THEN IF hoveredItem = null THEN NullTooltip
                 ELSE IF ~(hoveredItem \in Codes) THEN NullTooltip
                 ELSE [ kind |-> "single", code |-> hoveredItem,
                        date |-> formatDateLC(point["year"]),
                        value |-> value(hoveredItem) ]
            ELSE IF Len(visibleAirlinesLC) = 0 THEN NullTooltip
                 ELSE [ kind |-> "classic", date |-> formatDateLC(point["year"]),
                        entries |-> [ i \in 1..Len(visibleAirlinesLC) |->
                            [ code |-> visibleAirlinesLC[i].code,
                              value |-> value(visibleAirlinesLC[i].code) ] ] ]

\* C29: the two implementations agree. On the same carried value and the
\* same draw their generators make the same initial value, the same new
\* value and the same time coordinate at every step; in every state of
\* the mounted chart they give every airline the same visibility, stroke
\* width, dash flag and active point, the same opacity but for the faded
\* one, 0.08 against 0.15, the same comparator and render order, and the
\* same tooltip.
C29_ImplementationsAgree ==
  /\ (gpc = "init" /\ gi <= NumAirlines) =>
        \A r \in DrawValues :
          InitialValueLC(airlines[gi].group, r) = InitialValue(airlines[gi].group, r)
  /\ (gpc = "series" /\ gi <= NumAirlines) =>
        /\ YearDecimalLC(year, month) = YearDecimal(year, month)
        /\ \A r \in DrawValues :
              NewValueLC(airlines[gi].group, lastValues[airlines[gi].code], r, year, month)
                = NewValue(airlines[gi].group, lastValues[airlines[gi].code], r, year, month)
  /\ Mounted =>
        /\ \A a \in AirlineSet :
              /\ isItemVisibleLC(a) <=> isItemVisible(a)
              /\ getLineWidthLC(a) = getLineWidth(a)
              /\ DashedLC(a) <=> Dashed(a)
              /\ (activeIndex \in 0..LastIndex /\ dotLC(a, activeIndex)) <=> activeDot(a)
              /\ getLineOpacityLC(a) =
                    IF getLineOpacity(a) = FadedOpacity THEN FadedOpacityLC
                                                        ELSE getLineOpacity(a)
        /\ \A a, b \in AirlineSet : CompareLC(a, b) = Compare(a, b)
        /\ sortedAirlinesLC = sortedAirlines
        /\ CustomTooltipLC = CustomTooltip

\* single mode, BA hidden, LX hovered, index 5 active: CX is faded to 0.08
\* by one implementation and to 0.15 by the other; both show LX's tooltip
\* and LX's point, and render LX last
C29_Witness ==
  /\ Mounted
  /\ singleAirlineMode
  /\ hiddenItems = { "BA" }
  /\ hoveredItem = "LX"
  /\ activeIndex = 5
  /\ getLineOpacity(airlines[3]) = FadedOpacity
  /\ getLineOpacityLC(airlines[3]) = FadedOpacityLC
  /\ CustomTooltipLC.kind = "single"
  /\ CustomTooltipLC = CustomTooltip
  /\ dotLC(airlines[1], 5) /\ activeDot(airlines[1])
  /\ sortedAirlinesLC[Len(sortedAirlinesLC)].code = "LX"

\* the codes the tooltip names
TooltipCodes ==
  IF CustomTooltip = NullTooltip THEN {}
  ELSE IF CustomTooltip.kind = "single" THEN { CustomTooltip.code }
  ELSE { CustomTooltip.entries[i].code : i \in DOMAIN CustomTooltip.entries }

\* C30: in every state of the mounted chart, in either mode, every airline
\* the tooltip names and every airline whose active point is set is
\* visible: neither its group nor its code is hidden.
C30_NamedSeriesAreVisible ==
  Mounted =>
    /\ TooltipCodes \subseteq VisibleCodes
    /\ \A a \in AirlineSet : activeDot(a) => isItemVisible(a)

\* C31: a toggle applied twice restores both hidden sets, and two toggles
\* commute. After every toggleItem(c) step, applying the updater with c to
\* the new hiddenItems gives the old hiddenItems back, and applying it with
\* any d gives what d first and c second give; hiddenGroups is untouched,
\* so a group toggle before or after gives the same pair of sets. The same
\* holds for toggleGroup(g) with the roles of the two sets exchanged.
\* isItemVisible reads the two sets only, so it is the same in both orders.
C31_TogglesInvolutiveAndCommute ==
  [][ /\ \A c \in Codes : toggleItem(c) =>
            /\ Flip(hiddenItems', c) = hiddenItems
            /\ hiddenGroups' = hiddenGroups
            /\ \A d \in Codes :
                  Flip(hiddenItems', d) = Flip(Flip(hiddenItems, d), c)
            /\ \A g \in Groups :
                  Flip(hiddenGroups', g) = Flip(hiddenGroups, g)
      /\ \A g \in Groups : toggleGroup(g) =>
            /\ Flip(hiddenGroups', g) = hiddenGroups
            /\ hiddenItems' = hiddenItems
            /\ \A h \in Groups :
                  Flip(hiddenGroups', h) = Flip(Flip(hiddenGroups, h), g)
            /\ \A c \in Codes :
                  Flip(hiddenItems', c) = Flip(hiddenItems, c) ]_vars

\* LX, CX and the operating group were toggled, in some order: the next
\* toggle of LX deletes, the next toggle of BA adds, and the two orders of
\* these give the same set
C31_Witness ==
  /\ Mounted
  /\ hiddenItems = { "LX", "CX" }
  /\ hiddenGroups = { "operating" }
  /\ Flip(hiddenItems, "LX") = { "CX" }
  /\ Flip(Flip(hiddenItems, "LX"), "BA") = { "CX", "BA" }
  /\ Flip(Flip(hiddenItems, "BA"), "LX") = { "CX", "BA" }
  /\ Flip(Flip(hiddenGroups, "discontinued"), "discontinued") = hiddenGroups

\* the range of the initial draw of a group, and that range widened by 8%
InitialMin(group) == IF group = "operating" THEN 2000 ELSE 1000
InitialMax(group) == IF group = "operating" THEN 4000 ELSE 2500
FirstSampleMin(group) == IF group = "operating" THEN 1840 ELSE 920
FirstSampleMax(group) == IF group = "operating" THEN 4320 ELSE 2700

\* C32: the first sample of every airline is a perturbed value. Once the
\* matrix has a first sample, its value for an operating airline lies in
\* [1840, 4320] and for a discontinued airline in [920, 2700]; and at every
\* step of the first sample the carried value is the initial draw, inside
\* [2000, 4000] or [1000, 2500], and the value stored in the sample is the
\* rounded perturbation of it, with no multiplier and no clamp acting.
C32_FirstSamplePerturbed ==
  /\ [](Len(data) >= 1 =>
          \A c \in Codes :
            /\ data[1][c] >= FirstSampleMin(GroupOf(c))
            /\ data[1][c] <= FirstSampleMax(GroupOf(c)))
  /\ [][ (GenSeries /\ year = StartYear /\ month = 1) =>
            LET a == airlines[gi]
                initial == lastValues[a.code]
            IN /\ initial >= InitialMin(a.group) * Scale
               /\ initial <= InitialMax(a.group) * Scale
               /\ dataPoint'[a.code] = MathRound(Perturbed(initial, Draw(rng, drawCount)))
               /\ dataPoint'[a.code] >= FirstSampleMin(a.group)
               /\ dataPoint'[a.code] <= FirstSampleMax(a.group) ]_vars

\* the first sample of LX lies below 2000, outside the range of its
\* initial draw and inside that range widened by 8%
C32_Witness ==
  /\ Len(data) >= 1
  /\ data[1]["LX"] < InitialMin("operating")
  /\ data[1]["LX"] >= FirstSampleMin("operating")

====
